---- MODULE Spec2Model ----
(***************************************************************************)
(* Model of ApiMappingXLSX: BuildApiMappings.py (the ExcelFile workbook    *)
(* builder and the XLSX program) and BuildCSV.py (the CSV program).        *)
(*                                                                         *)
(* Python values are tagged records, Python strings are sequences of       *)
(* one-character strings (so len(), concatenation, str() of a number and   *)
(* the lexicographic order of sorted() are computed, not assumed), and a   *)
(* Python dict is a function whose DOMAIN is the set of its keys.          *)
(***************************************************************************)
EXTENDS Integers, Sequences, FiniteSets, TLC

VARIABLES
    filename,      \* ExcelFile.filename
    worksheets,    \* ExcelFile._workbook.worksheets(): the sheets, in creation order
    properties,    \* ExcelFile._workbook document properties (a dict)
    fileclosed,    \* ExcelFile._workbook has been closed
    written,       \* the files on disk: a set of [name, sheets]
    stdout,        \* what print() has written, in order
    fault,         \* the exception that ended the run, or "none"
    call,          \* the operation last applied, with its arguments and its result
    pc,            \* position of the __main__ script
    env            \* the __main__ script's local variables

vars == <<filename, worksheets, properties, fileclosed, written, stdout, fault, call, pc, env>>

(***************************************************************************)
(* Bounds of the model.                                                    *)
(***************************************************************************)
\* create_worksheet / set_workbook_properties / close_workbook calls explored on one ExcelFile
MaxCalls == 3
\* create_worksheet calls explored on one ExcelFile when the data varies
MaxRenderCalls == 1
\* records in a data_list handed to create_worksheet
MaxRows == 2
\* worksheets already in the workbook when _get_unique_worksheet_name is called
MaxExisting == 3
\* field names in a list handed to verify_cols_are_present
MaxCols == 2
\* records in the MethodList of a response
MaxRecords == 2

(***************************************************************************)
(* Python strings.                                                         *)
(***************************************************************************)
DigitChars == <<"0", "1", "2", "3", "4", "5", "6", "7", "8", "9">>

UpperChars ==
    <<"A", "B", "C", "D", "E", "F", "G", "H", "I", "J", "K", "L", "M",
      "N", "O", "P", "Q", "R", "S", "T", "U", "V", "W", "X", "Y", "Z">>

LowerChars ==
    <<"a", "b", "c", "d", "e", "f", "g", "h", "i", "j", "k", "l", "m",
      "n", "o", "p", "q", "r", "s", "t", "u", "v", "w", "x", "y", "z">>

\* Position of c in the sequence chars
IndexOf(chars, c) == CHOOSE i \in 1..Len(chars) : chars[i] = c

\* ord(c), for the characters the model's strings are made of
Ord(c) ==
    CASE c = " " -> 32
      [] c = "-" -> 45
      [] c = "." -> 46
      [] c = "/" -> 47
      [] c \in {DigitChars[i] : i \in 1..Len(DigitChars)} -> 47 + IndexOf(DigitChars, c)
      [] c = ":" -> 58
      [] c \in {UpperChars[i] : i \in 1..Len(UpperChars)} -> 64 + IndexOf(UpperChars, c)
      [] c = "_" -> 95
      [] c \in {LowerChars[i] : i \in 1..Len(LowerChars)} -> 96 + IndexOf(LowerChars, c)

\* a < b on two str: the first differing character decides, a proper prefix is smaller
StrLess(a, b) ==
    \/ /\ Len(a) < Len(b)
       /\ \A i \in 1..Len(a) : a[i] = b[i]
    \/ \E i \in 1..Len(a) :
          /\ i <= Len(b)
          /\ \A j \in 1..(i - 1) : a[j] = b[j]
          /\ Ord(a[i]) < Ord(b[i])

RECURSIVE NatDigits(_)
NatDigits(n) ==
    IF n < 10 THEN <<DigitChars[n + 1]>>
    ELSE NatDigits(n \div 10) \o <<DigitChars[(n % 10) + 1]>>

\* str(n) of an int, also what an f-string renders for {n}
IntStr(n) == IF n < 0 THEN <<"-">> \o NatDigits(0 - n) ELSE NatDigits(n)

\* sep.join(parts)
RECURSIVE Join(_, _)
Join(sep, parts) ==
    IF parts = <<>> THEN <<>>
    ELSE IF Len(parts) = 1 THEN parts[1]
    ELSE parts[1] \o sep \o Join(sep, Tail(parts))

(***************************************************************************)
(* Python scalar values: str, int, bool and None.                          *)
(***************************************************************************)
StrVal(s)  == [t |-> "str",  s |-> s,    n |-> 0]
IntVal(n)  == [t |-> "int",  s |-> <<>>, n |-> n]
BoolVal(b) == [t |-> "bool", s |-> <<>>, n |-> IF b THEN 1 ELSE 0]
None       == [t |-> "none", s |-> <<>>, n |-> 0]

\* str(v)
PyStr(v) ==
    CASE v.t = "str"  -> v.s
      [] v.t = "int"  -> IntStr(v.n)
      [] v.t = "bool" -> IF v.n = 1 THEN <<"T", "r", "u", "e">> ELSE <<"F", "a", "l", "s", "e">>
      [] v.t = "none" -> <<"N", "o", "n", "e">>

\* bool(v)
Truthy(v) ==
    CASE v.t = "str"  -> v.s # <<>>
      [] v.t = "int"  -> v.n # 0
      [] v.t = "bool" -> v.n = 1
      [] v.t = "none" -> FALSE

\* a < b is defined: two str, or two numbers (bool is a subclass of int)
Comparable(a, b) ==
    \/ a.t = "str" /\ b.t = "str"
    \/ a.t \in {"int", "bool"} /\ b.t \in {"int", "bool"}

\* a < b, for Comparable values
Less(a, b) == IF a.t = "str" THEN StrLess(a.s, b.s) ELSE a.n < b.n

\* row.get(key): the value, None when the key is absent
Get(row, key) == IF key \in DOMAIN row THEN row[key] ELSE None

\* row.get(key, default)
GetOr(row, key, default) == IF key \in DOMAIN row THEN row[key] ELSE default

(***************************************************************************)
(* The module constants of BuildApiMappings.py and BuildCSV.py.            *)
(***************************************************************************)
BUILD == <<"B", "u", "i", "l", "d">>
EXTERNAL == <<"E", "x", "t", "e", "r", "n", "a", "l">>
FISERV == <<"F", "i", "s", "e", "r", "v", ",", " ", "I", "n", "c", ".">>
HOT_FIX == <<"H", "o", "t", "f", "i", "x">>
IDEMPOTENT == <<"I", "d", "e", "m", "p", "o", "t", "e", "n", "t">>
INTERNAL == <<"I", "n", "t", "e", "r", "n", "a", "l">>
MAJOR == <<"M", "a", "j", "o", "r", "V", "e", "r", "s", "i", "o", "n">>
METHOD_ACCESS == <<"M", "e", "t", "h", "o", "d", "A", "c", "c", "e", "s", "s">>
METHOD_ACCESS_CHECKED ==
    <<"M", "e", "t", "h", "o", "d", "A", "c", "c", "e", "s", "s", "C", "h", "e", "c", "k", "e", "d">>
METHOD_CLASS == <<"M", "e", "t", "h", "o", "d", "C", "l", "a", "s", "s">>
METHOD_LIST == <<"M", "e", "t", "h", "o", "d", "L", "i", "s", "t">>
MINOR == <<"M", "i", "n", "o", "r", "V", "e", "r", "s", "i", "o", "n">>
NAME == <<"N", "a", "m", "e">>
RESULT_TYPE == <<"R", "e", "s", "u", "l", "t", "T", "y", "p", "e">>
URL == <<"U", "R", "L">>
VERSION == <<"V", "e", "r", "s", "i", "o", "n">>

LEFT == "left"
CENTER == "center"
RIGHT == "right"

\* An ordered dict of column name -> alignment: its keys in insertion order, and the mapping
ColumnDict(keys, align) == [keys |-> keys, align |-> align]

\* x in a list
InList(x, list) == \E i \in 1..Len(list) : list[i] = x

(***************************************************************************)
(* ExcelFile.                                                              *)
(***************************************************************************)
\* unique_loop with the index incremented before it is used: the first probe is _2
RECURSIVE unique_loop_from_two(_, _, _, _)
unique_loop_from_two(existing_wks, worksheet_name, unique_wks_name, index) ==
    IF InList(unique_wks_name, existing_wks)
    THEN unique_loop_from_two(existing_wks, worksheet_name,
                              worksheet_name \o <<"_">> \o IntStr(index + 1), index + 1)
    ELSE unique_wks_name

\* The while loop of _get_unique_worksheet_name
RECURSIVE unique_loop(_, _, _, _)
unique_loop(existing_wks, worksheet_name, unique_wks_name, index) ==
    IF InList(unique_wks_name, existing_wks)
    THEN unique_loop(existing_wks, worksheet_name,
                     worksheet_name \o <<"_">> \o IntStr(index), index + 1)
    ELSE unique_wks_name

\* _get_unique_worksheet_name with an if in place of the while: one probe, never rechecked
get_unique_worksheet_name_once(existing_wks, worksheet_name) ==
    IF InList(worksheet_name, existing_wks)
    THEN worksheet_name \o <<"_">> \o IntStr(1)
    ELSE worksheet_name

\* ExcelFile._get_unique_worksheet_name, on the names of the workbook's worksheets
get_unique_worksheet_name(existing_wks, worksheet_name) ==
    unique_loop(existing_wks, worksheet_name, worksheet_name, 1)

\* [wks.get_name() for wks in self._workbook.worksheets()]
SheetNames(sheets) == [i \in 1..Len(sheets) |-> sheets[i].name]

\* self._workbook.add_worksheet(name): a new, empty worksheet
NewWorksheet(name) ==
    [name |-> name, cells |-> <<>>, frozen |-> <<0, 0>>, columns |-> <<>>]

\* worksheet.write(row, col, text, format) and worksheet.write_string(row, col, text)
WriteCell(ws, row, col, cell) ==
    [ws EXCEPT !.cells = (<<row, col>> :> cell) @@ ws.cells]

\* The format of a header cell: the column's alignment, bold, light gray background
HeaderFormat(align) == [align |-> align, bold |-> TRUE, bg_color |-> "D9D9D9"]

\* No format: what write_string without a format leaves
NoFormat == [align |-> "", bold |-> FALSE, bg_color |-> ""]

\* The for loop of _build_header over enumerate(column_dict.keys()), from column_index on;
\* st is [ws, width]: the worksheet and column_width_dict
RECURSIVE build_header_loop(_, _, _)
build_header_loop(st, column_dict, column_index) ==
    IF column_index >= Len(column_dict.keys) THEN st
    ELSE LET column_name == column_dict.keys[column_index + 1]
             cell == [text |-> column_name, format |-> HeaderFormat(column_dict.align[column_name])]
         IN  build_header_loop(
                 [ws    |-> WriteCell(st.ws, 0, column_index, cell),
                  width |-> (column_name :> Len(column_name)) @@ st.width],
                 column_dict, column_index + 1)

\* ExcelFile._build_header: the header row, the seeded widths, the frozen top row
build_header(worksheet, column_dict, column_width_dict) ==
    LET st == build_header_loop([ws |-> worksheet, width |-> column_width_dict], column_dict, 0)
    IN  [ws |-> [st.ws EXCEPT !.frozen = <<1, 0>>], width |-> st.width]

\* operator.itemgetter(sort_key)(row) raises KeyError on a row without the key; comparing
\* two keys that are not Comparable raises TypeError. sorted() computes every key first,
\* and cannot order two or more rows without comparing across every pair of key types.
sorted_fault(data_list, sort_key) ==
    IF \E i \in 1..Len(data_list) : sort_key \notin DOMAIN data_list[i]
    THEN "KeyError"
    ELSE IF \E i, j \in 1..Len(data_list) :
                i # j /\ ~Comparable(data_list[i][sort_key], data_list[j][sort_key])
    THEN "TypeError"
    ELSE "none"

\* insert_sorted that keeps the order given: the data is written unsorted
insert_unsorted(out, row, sort_key) == Append(out, row)

\* row goes before the first element whose key is greater, so after every equal key
RECURSIVE insert_sorted(_, _, _)
insert_sorted(out, row, sort_key) ==
    IF out = <<>> THEN <<row>>
    ELSE IF Less(row[sort_key], Head(out)[sort_key]) THEN <<row>> \o out
    ELSE <<Head(out)>> \o insert_sorted(Tail(out), row, sort_key)

\* sorted(data_list, key=operator.itemgetter(sort_key)): ascending and stable
RECURSIVE sorted(_, _)
sorted(data_list, sort_key) ==
    IF data_list = <<>> THEN <<>>
    ELSE insert_sorted(sorted(SubSeq(data_list, 1, Len(data_list) - 1), sort_key),
                       data_list[Len(data_list)], sort_key)

\* column_buffer of create_worksheet
column_buffer == 7

\* write_row that never updates column_width: the widths stay those of the header
RECURSIVE write_row_header_width(_, _, _, _, _)
write_row_header_width(st, column_alignment_dict, row_data, row_index, column_index) ==
    IF column_index >= Len(column_alignment_dict.keys) THEN st
    ELSE LET column_name == column_alignment_dict.keys[column_index + 1]
             entry == PyStr(Get(row_data, column_name))
         IN  write_row_header_width(
                 [ws    |-> WriteCell(st.ws, row_index, column_index,
                                      [text |-> entry, format |-> NoFormat]),
                  width |-> st.width],
                 column_alignment_dict, row_data, row_index, column_index + 1)

\* The inner for loop of create_worksheet over enumerate(column_alignment_dict), for one row
RECURSIVE write_row(_, _, _, _, _)
write_row(st, column_alignment_dict, row_data, row_index, column_index) ==
    IF column_index >= Len(column_alignment_dict.keys) THEN st
    ELSE LET column_name == column_alignment_dict.keys[column_index + 1]
             entry == PyStr(Get(row_data, column_name))
         IN  write_row(
                 [ws    |-> WriteCell(st.ws, row_index, column_index,
                                      [text |-> entry, format |-> NoFormat]),
                  width |-> IF Len(entry) > st.width[column_name]
                            THEN [st.width EXCEPT ![column_name] = Len(entry)]
                            ELSE st.width],
                 column_alignment_dict, row_data, row_index, column_index + 1)

\* The outer for loop of create_worksheet over enumerate(sorted(...), start=1)
RECURSIVE write_rows(_, _, _, _)
write_rows(st, column_alignment_dict, rows, row_index) ==
    IF row_index > Len(rows) THEN st
    ELSE write_rows(write_row(st, column_alignment_dict, rows[row_index], row_index, 0),
                    column_alignment_dict, rows, row_index + 1)

\* The last for loop of create_worksheet: worksheet.set_column for every column
RECURSIVE set_columns(_, _, _, _)
set_columns(ws, column_alignment_dict, column_width, column_index) ==
    IF column_index >= Len(column_alignment_dict.keys) THEN ws
    ELSE LET column_name == column_alignment_dict.keys[column_index + 1]
             column ==
                 [width  |-> column_width[column_name] + column_buffer,
                  format |-> [align    |-> column_alignment_dict.align[column_name],
                              bold     |-> FALSE,
                              bg_color |-> ""]]
         IN  set_columns([ws EXCEPT !.columns = (column_index :> column) @@ ws.columns],
                         column_alignment_dict, column_width, column_index + 1)

\* The name create_worksheet asks for: worksheet_name, or the filename for ''
requested_name(self_filename, worksheet_name) ==
    IF worksheet_name # <<>> THEN worksheet_name ELSE self_filename

\* ExcelFile.create_worksheet on the workbook's sheets: the sheets after the call, the
\* exception it raised ("none" when it returned), the name it used and what it printed.
\* The worksheet is added and its header written before sorted() runs, so a call that
\* raises leaves a worksheet holding its header row alone.
create_worksheet(self_filename, sheets, column_alignment_dict, data_list, sort_key, worksheet_name) ==
    LET unique_worksheet_name ==
            get_unique_worksheet_name(SheetNames(sheets),
                                      requested_name(self_filename, worksheet_name))
        worksheet == NewWorksheet(unique_worksheet_name)
        header    == build_header(worksheet, column_alignment_dict, <<>>)
        raised    == sorted_fault(data_list, sort_key)
        filled    == write_rows(header, column_alignment_dict, sorted(data_list, sort_key), 1)
        sized     == set_columns(filled.ws, column_alignment_dict, filled.width, 0)
    IN  IF raised # "none"
        THEN [sheets |-> Append(sheets, header.ws), fault |-> raised,
              name |-> unique_worksheet_name, printed |-> <<>>]
        ELSE [sheets |-> Append(sheets, sized), fault |-> "none",
              name |-> unique_worksheet_name,
              printed |-> <<[text |-> "Worksheet: Created/populated", arg |-> unique_worksheet_name]>>]

\* The properties dict of set_workbook_properties: every option defaults to '', company
\* to FISERV; given is the dict of the keyword arguments passed
PropertyNames ==
    {"title", "subject", "author", "comments", "keywords", "category", "company",
     "status", "manager", "hyperlink_base"}

workbook_properties(given) ==
    [k \in PropertyNames |->
        IF k \in DOMAIN given THEN given[k]
        ELSE IF k = "company" THEN FISERV ELSE <<>>]

(***************************************************************************)
(* The utility routines and the partition of the scripts.                  *)
(***************************************************************************)
\* set(list)
SetOf(list) == {list[i] : i \in 1..Len(list)}

\* verify_cols_are_present that compares both ways: extra columns fail it too
verify_cols_exact(source, expected) ==
    LET diff == (SetOf(expected) \ SetOf(source)) \cup (SetOf(source) \ SetOf(expected))
    IN  [ret |-> diff = {}, diff |-> diff]

\* verify_cols_are_present(source, expected): what it returns, and the diff it prints
\* when the diff is not empty
verify_cols_are_present(source, expected) ==
    LET diff == SetOf(expected) \ SetOf(source)
    IN  [ret |-> diff = {}, diff |-> diff]

\* The partition with the flag compared to True and to False: other values are dropped
partition_strict(raw_api_data) ==
    LET IsFalse(rows) == GetOr(rows, INTERNAL, BoolVal(FALSE)) = BoolVal(FALSE)
        IsTrue(rows) == GetOr(rows, INTERNAL, BoolVal(FALSE)) = BoolVal(TRUE)
    IN  [External |-> SelectSeq(raw_api_data, IsFalse),
         Internal |-> SelectSeq(raw_api_data, IsTrue)]

\* api_data of __main__: the two list comprehensions over raw_api_data
partition(raw_api_data) ==
    LET NotInternal(rows) == ~Truthy(GetOr(rows, INTERNAL, BoolVal(FALSE)))
        IsInternal(rows) == Truthy(GetOr(rows, INTERNAL, BoolVal(FALSE)))
    IN  [External |-> SelectSeq(raw_api_data, NotInternal),
         Internal |-> SelectSeq(raw_api_data, IsInternal)]

\* build_version_str(version_info), for a dict version_info
build_version_str(version_info) ==
    Join(<<".">>, [i \in 1..4 |-> PyStr(Get(version_info, <<MAJOR, MINOR, HOT_FIX, BUILD>>[i]))])

\* define_expected_columns(): the expected columns in display order, with alignments
define_expected_columns ==
    ColumnDict(
        <<NAME, IDEMPOTENT, RESULT_TYPE, METHOD_ACCESS_CHECKED, METHOD_CLASS, INTERNAL,
          METHOD_ACCESS>>,
        (NAME :> LEFT) @@ (IDEMPOTENT :> CENTER) @@ (RESULT_TYPE :> LEFT)
        @@ (METHOD_ACCESS_CHECKED :> CENTER) @@ (METHOD_CLASS :> LEFT)
        @@ (INTERNAL :> CENTER) @@ (METHOD_ACCESS :> LEFT))

\* expected_cols of BuildCSV.py
expected_cols ==
    <<NAME, IDEMPOTENT, RESULT_TYPE, METHOD_ACCESS_CHECKED, METHOD_CLASS, INTERNAL, METHOD_ACCESS>>

\* [c for c in list if c != x]
RECURSIVE ListWithout(_, _)
ListWithout(list, x) ==
    IF list = <<>> THEN <<>>
    ELSE IF Head(list) = x THEN ListWithout(Tail(list), x)
    ELSE <<Head(list)>> \o ListWithout(Tail(list), x)

\* del column_dict[key]
DelColumn(column_dict, key) ==
    ColumnDict(ListWithout(column_dict.keys, key),
               [k \in DOMAIN column_dict.align \ {key} |-> column_dict.align[k]])

\* A list of the keys of a dict; the dicts of the model keep no order, and the only
\* reader of this list, verify_cols_are_present, makes a set of it
RECURSIVE ListOf(_)
ListOf(S) ==
    IF S = {} THEN <<>>
    ELSE LET x == CHOOSE y \in S : TRUE IN <<x>> \o ListOf(S \ {x})

\* s.lower()
Lower(s) ==
    [i \in 1..Len(s) |->
        IF s[i] \in SetOf(UpperChars) THEN LowerChars[IndexOf(UpperChars, s[i])] ELSE s[i]]

\* What csv.writer writes for a value: nothing for None, str(v) for the others
CsvField(v) == IF v.t = "none" THEN <<>> ELSE PyStr(v)

\* write_csv_from_dict(filename, ordered_column_header, data_list, sort_key): the rows of
\* the file and the exception raised. open(filename, "w") and the header row come before
\* sorted(), so a call that raises leaves a file holding the header alone.
write_csv_from_dict(ordered_column_header, data_list, sort_key) ==
    LET raised == sorted_fault(data_list, sort_key)
        rows   == sorted(data_list, sort_key)
    IN  IF raised # "none"
        THEN [content |-> <<ordered_column_header>>, fault |-> raised]
        ELSE [content |-> <<ordered_column_header>> \o
                          [i \in 1..Len(rows) |->
                              [c \in 1..Len(ordered_column_header) |->
                                  CsvField(Get(rows[i], ordered_column_header[c]))]],
              fault |-> "none"]

\* int(response.status_code) / 100 != 2: / is the true division, so of all status codes
\* only 200 gives exactly 2
status_failed(status_code) == status_code # 2 * 100

\* get_api_list(url), given the response of requests.get: the payload, and whether the
\* "Unable to get API information" line is printed
get_api_list(response) ==
    IF status_failed(response.status_code)
    THEN [payload |-> <<>>, complained |-> TRUE]
    ELSE [payload |-> response.body, complained |-> FALSE]

(***************************************************************************)
(* The operations of one ExcelFile object. An exception that nobody        *)
(* catches ends the script, so nothing runs once fault is set.             *)
(***************************************************************************)
Printed(text, arg) == [text |-> text, arg |-> arg]

\* The files on disk once a file of that name is written: an older one is replaced
WriteFile(files, name, content) ==
    {f \in files : f.name # name} \cup {[name |-> name, content |-> content]}

\* ExcelFile.__init__(filename): an empty workbook in memory, no file yet
ExcelFileInit(name) ==
    /\ filename = name
    /\ worksheets = <<>>
    /\ properties = <<>>
    /\ fileclosed = FALSE

\* ExcelFile.set_workbook_properties(**given)
SetWorkbookProperties(given) ==
    /\ fault = "none"
    /\ properties' = workbook_properties(given)
    /\ call' = [n |-> call.n + 1, op |-> "set_workbook_properties",
                args |-> given, ret |-> <<>>]
    /\ UNCHANGED <<filename, worksheets, fileclosed, written, stdout, fault, pc, env>>

\* ExcelFile.create_worksheet(column_alignment_dict, data_list, sort_key, worksheet_name)
CreateWorksheet(column_alignment_dict, data_list, sort_key, worksheet_name) ==
    /\ fault = "none"
    /\ LET r == create_worksheet(filename, worksheets, column_alignment_dict,
                                 data_list, sort_key, worksheet_name)
       IN  /\ worksheets' = r.sheets
           /\ fault' = r.fault
           /\ stdout' = stdout \o r.printed
           /\ call' = [n |-> call.n + 1, op |-> "create_worksheet",
                       args |-> [column_alignment_dict |-> column_alignment_dict,
                                 data_list |-> data_list, sort_key |-> sort_key,
                                 worksheet_name |-> worksheet_name],
                       ret |-> r.name]
    /\ UNCHANGED <<filename, properties, fileclosed, written, pc, env>>

\* ExcelFile.close_workbook(): the workbook writes its file on the first close; the class
\* keeps no record of its own that it was closed
CloseWorkbook ==
    /\ fault = "none"
    /\ fileclosed' = TRUE
    /\ written' = IF fileclosed THEN written
                  ELSE WriteFile(written, filename, worksheets)
    /\ stdout' = Append(stdout, Printed("Workbook: Wrote XLSX", filename))
    /\ call' = [n |-> call.n + 1, op |-> "close_workbook", args |-> <<>>, ret |-> <<>>]
    /\ UNCHANGED <<filename, worksheets, properties, fault, pc, env>>

NoCall == [n |-> 0, op |-> "none", args |-> <<>>, ret |-> <<>>]

(***************************************************************************)
(* Spec: any sequence of calls on one ExcelFile.                           *)
(***************************************************************************)
Filenames == {<<"A">>, <<"o", ".", "x", "l", "s", "x">>}

\* worksheet_name arguments: '' (the filename), two names, and a name that looks like a
\* suffixed one
WorksheetNames == {<<>>, <<"A">>, <<"B">>, <<"A", "_", "1">>}

NameColumn == ColumnDict(<<NAME>>, (NAME :> LEFT))
VersionColumns == ColumnDict(<<VERSION, URL>>, (VERSION :> LEFT) @@ (URL :> LEFT))

Zeta  == <<"Z", "e", "t", "a">>
Alpha == <<"A", "l", "p", "h", "a">>

\* (column_alignment_dict, data_list, sort_key) of the calls explored by Spec
Datasets ==
    { [columns |-> NameColumn, sort_key |-> NAME,
       data |-> <<(NAME :> StrVal(Zeta)), (NAME :> StrVal(Alpha))>>],
      [columns |-> NameColumn, sort_key |-> NAME, data |-> <<>>],
      [columns |-> NameColumn, sort_key |-> NAME,
       data |-> <<(NAME :> StrVal(Zeta)), (IDEMPOTENT :> BoolVal(TRUE))>>],
      [columns |-> VersionColumns, sort_key |-> VERSION,
       data |-> <<(VERSION :> StrVal(<<"1", ".", "2">>)) @@ (URL :> StrVal(<<"u">>))>>] }

PropertyInputs == {<<>>, [title |-> <<"T">>, company |-> <<"C">>]}

Init ==
    /\ \E name \in Filenames : ExcelFileInit(name)
    /\ written = {}
    /\ stdout = <<>>
    /\ fault = "none"
    /\ call = NoCall
    /\ pc = "object"
    /\ env = <<>>

\* The calls explored on one object are bounded
CanCall == call.n < MaxCalls

Next ==
    \/ \E given \in PropertyInputs : CanCall /\ SetWorkbookProperties(given)
    \/ \E ds \in Datasets, name \in WorksheetNames :
          CanCall /\ CreateWorksheet(ds.columns, ds.data, ds.sort_key, name)
    \/ CanCall /\ CloseWorkbook

Spec == Init /\ [][Next]_vars

(***************************************************************************)
(* SpecRender: create_worksheet over every data_list of up to MaxRows      *)
(* records.                                                                *)
(***************************************************************************)
\* Every list of at most n elements of S
RECURSIVE ListsUpTo(_, _)
ListsUpTo(S, n) ==
    IF n = 0 THEN {<<>>}
    ELSE LET shorter == ListsUpTo(S, n - 1)
         IN  shorter \cup {Append(l, x) : l \in {k \in shorter : Len(k) = n - 1}, x \in S}

\* Records with a Name longer and shorter than its header, with and without each field,
\* with str, bool and int values
RenderRecords ==
    { (NAME :> StrVal(Zeta)) @@ (IDEMPOTENT :> BoolVal(TRUE)),
      (NAME :> StrVal(Alpha)) @@ (IDEMPOTENT :> BoolVal(FALSE)),
      (NAME :> StrVal(<<"A", "l">>)),
      (IDEMPOTENT :> BoolVal(TRUE)),
      (NAME :> IntVal(10)) @@ (IDEMPOTENT :> IntVal(0)) }

RenderColumns ==
    { ColumnDict(<<NAME, IDEMPOTENT>>, (NAME :> LEFT) @@ (IDEMPOTENT :> CENTER)),
      ColumnDict(<<IDEMPOTENT>>, (IDEMPOTENT :> RIGHT)) }

RenderKeys == {NAME, IDEMPOTENT}

InitRender ==
    /\ ExcelFileInit(<<"o", ".", "x", "l", "s", "x">>)
    /\ written = {}
    /\ stdout = <<>>
    /\ fault = "none"
    /\ call = NoCall
    /\ pc = "object"
    /\ env = <<>>

NextRender ==
    \E column_alignment_dict \in RenderColumns, sort_key \in RenderKeys,
       data_list \in ListsUpTo(RenderRecords, MaxRows) :
        /\ call.n < MaxRenderCalls
        /\ CreateWorksheet(column_alignment_dict, data_list, sort_key, <<>>)

SpecRender == InitRender /\ [][NextRender]_vars

(***************************************************************************)
(* Claims about the ExcelFile object.                                      *)
(***************************************************************************)
\* The last call was a create_worksheet
LastIsCreate == call.op = "create_worksheet"

\* The last call was a create_worksheet that returned
LastCreateReturned == LastIsCreate /\ fault = "none"

LastSheet == worksheets[Len(worksheets)]

A_1 == <<"A", "_", "1">>
A_2 == <<"A", "_", "2">>

NamesDistinct ==
    \A i, j \in 1..Len(worksheets) : i # j => worksheets[i].name # worksheets[j].name

\* A step that is a create_worksheet call appends one worksheet and keeps the others
CreateAddsOne ==
    (call'.n > call.n /\ call'.op = "create_worksheet") =>
        /\ Len(worksheets') = Len(worksheets) + 1
        /\ SubSeq(worksheets', 1, Len(worksheets)) = worksheets

\* C2: after any sequence of create_worksheet calls the worksheet names are pairwise
\* distinct under exact string comparison, and every create_worksheet call adds exactly
\* one worksheet without replacing or renaming an existing one.
C2_UniqueNames == []NamesDistinct /\ [][CreateAddsOne]_vars

\* C2's case: "A_1" was asked for first, then "A" twice: the second "A" finds A and A_1
\* taken and becomes A_2
C2_Witness ==
    /\ LastIsCreate
    /\ call.args.worksheet_name = <<"A">>
    /\ SheetNames(worksheets) = <<A_1, <<"A">>, A_2>>

\* C7: once close_workbook has been called, every later call of create_worksheet,
\* set_workbook_properties or close_workbook is an error.
C7_NoCallAfterClose == [][(fileclosed /\ call'.n > call.n) => fault' # "none"]_vars

\* The largest number of a non-empty finite set of numbers
MaxOf(S) == CHOOSE x \in S : \A y \in S : y <= x

\* The rows and columns a worksheet holds cells in
CellRows(ws) == {rc[1] : rc \in DOMAIN ws.cells}
CellsOfColumn(ws, c) == {rc \in DOMAIN ws.cells : rc[2] = c}

\* Every column of the column specification has the width of its longest cell text
\* (the header's included) plus 7
WidthsFit(ws, column_alignment_dict) ==
    /\ DOMAIN ws.columns = 0..(Len(column_alignment_dict.keys) - 1)
    /\ \A c \in DOMAIN ws.columns :
          /\ ws.cells[<<0, c>>].text = column_alignment_dict.keys[c + 1]
          /\ ws.columns[c].width =
                 MaxOf({Len(ws.cells[rc].text) : rc \in CellsOfColumn(ws, c)}) + 7

\* C5: when create_worksheet finishes, the width of every column is
\* max(len(header), longest stringified cell written in the column) + 7, and the header
\* length + 7 with an empty record list.
C5_ColumnWidth ==
    LastCreateReturned =>
        /\ WidthsFit(LastSheet, call.args.column_alignment_dict)
        /\ call.args.data_list = <<>> =>
               \A c \in DOMAIN LastSheet.columns :
                   LastSheet.columns[c].width =
                       Len(call.args.column_alignment_dict.keys[c + 1]) + 7

\* C5's case: a returned call whose Name column holds "Alpha" (5 > len("Name")) and got
\* width 12, next to an Idempotent column no value of which is longer than its header
C5_Witness ==
    /\ LastCreateReturned
    /\ call.args.column_alignment_dict.keys = <<NAME, IDEMPOTENT>>
    /\ Len(call.args.data_list) = 2
    /\ LastSheet.columns[0].width = 12
    /\ LastSheet.columns[1].width = 17

\* The rows 1..n of ws are the records of data_list in the order p, one cell per column
RowsAre(ws, column_alignment_dict, data_list, p) ==
    /\ DOMAIN ws.cells =
           (0..Len(data_list)) \X (0..(Len(column_alignment_dict.keys) - 1))
    /\ \A i \in 1..Len(data_list), c \in 0..(Len(column_alignment_dict.keys) - 1) :
           ws.cells[<<i, c>>].text =
               PyStr(Get(data_list[p[i]], column_alignment_dict.keys[c + 1]))

\* The order p never puts a record before one with a smaller sort key
Ascending(data_list, sort_key, p) ==
    \A i, j \in 1..Len(data_list) :
        i < j => ~Less(data_list[p[j]][sort_key], data_list[p[i]][sort_key])

\* C6: create_worksheet writes every record of data_list exactly once, one per row at
\* rows 1..n, in ascending order of its sort_key value, cells in the declared column order.
C6_SortedRows ==
    LastCreateReturned =>
        \E p \in Permutations(1..Len(call.args.data_list)) :
            /\ Ascending(call.args.data_list, call.args.sort_key, p)
            /\ RowsAre(LastSheet, call.args.column_alignment_dict, call.args.data_list, p)

\* C6's case: Zeta then Alpha given, sorted by Name: row 1 is Alpha, row 2 is Zeta
C6_Witness ==
    /\ LastCreateReturned
    /\ call.args.sort_key = NAME
    /\ call.args.column_alignment_dict.keys = <<NAME, IDEMPOTENT>>
    /\ Len(call.args.data_list) = 2
    /\ call.args.data_list[1][NAME] = StrVal(Zeta)
    /\ call.args.data_list[2][NAME] = StrVal(Alpha)
    /\ LastSheet.cells[<<1, 0>>].text = Alpha
    /\ LastSheet.cells[<<2, 0>>].text = Zeta

\* C10: when sort_key is absent from some record of data_list, create_worksheet does not
\* crash and still writes every record as a row.
C10_SortIsTotal ==
    (/\ LastIsCreate
     /\ \E i \in 1..Len(call.args.data_list) :
            call.args.sort_key \notin DOMAIN call.args.data_list[i])
    => /\ fault = "none"
       /\ CellRows(LastSheet) = 0..Len(call.args.data_list)

(***************************************************************************)
(* SpecFn: one call of _get_unique_worksheet_name, verify_cols_are_present *)
(* or the partition, on every input within the bounds.                     *)
(***************************************************************************)
\* ExcelFile._get_unique_worksheet_name(worksheet_name) on the object
GetUniqueWorksheetName(worksheet_name) ==
    /\ fault = "none"
    /\ call' = [n |-> call.n + 1, op |-> "get_unique_worksheet_name",
                args |-> [worksheet_name |-> worksheet_name],
                ret |-> get_unique_worksheet_name(SheetNames(worksheets), worksheet_name)]
    /\ UNCHANGED <<filename, worksheets, properties, fileclosed, written, stdout, fault, pc, env>>

\* verify_cols_are_present(source, expected)
VerifyColsArePresent(source, expected) ==
    /\ fault = "none"
    /\ LET r == verify_cols_are_present(source, expected)
       IN  /\ stdout' = IF r.diff # {}
                        THEN Append(stdout, Printed("Column Mismatch", r.diff))
                        ELSE stdout
           /\ call' = [n |-> call.n + 1, op |-> "verify_cols_are_present",
                       args |-> [source |-> source, expected |-> expected],
                       ret |-> r.ret]
    /\ UNCHANGED <<filename, worksheets, properties, fileclosed, written, fault, pc, env>>

\* The partition of raw_api_data into api_data
Partition(raw_api_data) ==
    /\ fault = "none"
    /\ call' = [n |-> call.n + 1, op |-> "partition",
                args |-> [raw_api_data |-> raw_api_data],
                ret |-> partition(raw_api_data)]
    /\ UNCHANGED <<filename, worksheets, properties, fileclosed, written, stdout, fault, pc, env>>

\* Every list of at most n distinct elements of S
DistinctListsUpTo(S, n) ==
    {l \in ListsUpTo(S, n) : \A i, j \in 1..Len(l) : i # j => l[i] # l[j]}

\* Worksheet names a workbook may hold when a name is asked for
ExistingNames == {<<"A">>, A_1, A_2, <<"B">>}

\* The worksheets left by create_worksheet calls that asked for the names one by one
RECURSIVE WorkbookOf(_)
WorkbookOf(names) ==
    IF names = <<>> THEN <<>>
    ELSE create_worksheet(<<"A">>, WorkbookOf(SubSeq(names, 1, Len(names) - 1)),
                          NameColumn, <<>>, NAME, names[Len(names)]).sheets

\* Field names of the lists handed to verify_cols_are_present
FieldNames == {NAME, METHOD_CLASS, INTERNAL}

\* Values of the Internal flag: absent (no such value), booleans, numbers, strings, None
FlagValues ==
    {BoolVal(TRUE), BoolVal(FALSE), IntVal(1), IntVal(0), StrVal(<<>>), StrVal(<<"n", "o">>), None}

\* Records told apart by Name, with every value of the flag, and without the flag
FlagRecords ==
    {(NAME :> StrVal(<<"A">>)), (NAME :> StrVal(<<"B">>))}
    \cup {(NAME :> StrVal(<<"A">>)) @@ (INTERNAL :> v) : v \in FlagValues}

InitFn ==
    /\ filename = <<"A">>
    /\ \E names \in DistinctListsUpTo(ExistingNames, MaxExisting) :
          worksheets = WorkbookOf(names)
    /\ properties = <<>>
    /\ fileclosed = FALSE
    /\ written = {}
    /\ stdout = <<>>
    /\ fault = "none"
    /\ call = NoCall
    /\ pc = "object"
    /\ env = <<>>

\* verify_cols_are_present and the partition read nothing of the workbook: they are
\* explored on the empty one
NextFn ==
    \/ \E worksheet_name \in ExistingNames :
          call.n = 0 /\ GetUniqueWorksheetName(worksheet_name)
    \/ \E source \in ListsUpTo(FieldNames, MaxCols), expected \in ListsUpTo(FieldNames, MaxCols) :
          call.n = 0 /\ worksheets = <<>> /\ VerifyColsArePresent(source, expected)
    \/ \E raw_api_data \in ListsUpTo(FlagRecords, MaxRecords) :
          call.n = 0 /\ worksheets = <<>> /\ Partition(raw_api_data)

SpecFn == InitFn /\ [][NextFn]_vars

(***************************************************************************)
(* Claims about the functions.                                             *)
(***************************************************************************)
\* requested_k
Suffixed(requested, k) == requested \o <<"_">> \o IntStr(k)

\* C1: _get_unique_worksheet_name(requested) returns requested unchanged when it is not
\* among the current worksheet names, otherwise requested_k for the smallest k >= 1 such
\* that requested_k is not among them; on a workbook holding exactly n, n_1, ..., n_k it
\* returns n_{k+1}.
C1_UniqueName ==
    call.op = "get_unique_worksheet_name" =>
        LET names == SheetNames(worksheets)
            requested == call.args.worksheet_name
        IN  /\ ~InList(requested, names) => call.ret = requested
            /\ InList(requested, names) =>
                   \E k \in 1..Len(names) :
                       /\ call.ret = Suffixed(requested, k)
                       /\ ~InList(call.ret, names)
                       /\ \A j \in 1..(k - 1) : InList(Suffixed(requested, j), names)
            /\ SetOf(names) = {requested} \cup {Suffixed(requested, j) : j \in 1..(Len(names) - 1)}
                   => call.ret = Suffixed(requested, Len(names))

\* C1's case: the workbook holds A, A_2 and A_1 (in that order), A is asked for, A_3 is
\* returned
C1_Witness ==
    /\ call.op = "get_unique_worksheet_name"
    /\ call.args.worksheet_name = <<"A">>
    /\ SheetNames(worksheets) = <<<<"A">>, A_2, A_1>>
    /\ call.ret = <<"A", "_", "3">>

\* C3: verify_cols_are_present(source, expected) returns true iff every expected name is
\* in source; names only in source never make it false; on failure the diff it reports
\* is exactly the expected names missing from source.
C3_VerifyCols ==
    call.op = "verify_cols_are_present" =>
        LET source == call.args.source
            expected == call.args.expected
            missing == {expected[i] : i \in {j \in 1..Len(expected) : ~InList(expected[j], source)}}
        IN  /\ call.ret <=> \A i \in 1..Len(expected) : InList(expected[i], source)
            /\ call.ret => stdout = <<>>
            /\ ~call.ret => /\ Len(stdout) = 1
                            /\ stdout[1].arg = missing
                            /\ missing # {}

\* C3's case: source holds a name that expected does not, and the answer is true
C3_Witness ==
    /\ call.op = "verify_cols_are_present"
    /\ call.args.expected = <<NAME>>
    /\ call.args.source = <<INTERNAL, NAME>>
    /\ call.ret

\* f maps the positions of group, in order, to positions of input holding the same records
Embeds(f, group, input) ==
    /\ \A i \in 1..Len(group) : group[i] = input[f[i]]
    /\ \A i, j \in 1..Len(group) : i < j => f[i] < f[j]

\* C4: every record is in exactly one of the Internal and External groups, Internal iff
\* its flag is truthy (External when it is falsy or absent), the group sizes sum to the
\* input size, and each group keeps the original relative order.
C4_Partition ==
    call.op = "partition" =>
        LET input == call.args.raw_api_data
            int == call.ret.Internal
            ext == call.ret.External
            IsTrue(rows) == INTERNAL \in DOMAIN rows /\ Truthy(rows[INTERNAL])
        IN  /\ Len(int) + Len(ext) = Len(input)
            /\ \E f \in [1..Len(int) -> 1..Len(input)], g \in [1..Len(ext) -> 1..Len(input)] :
                   /\ Embeds(f, int, input)
                   /\ Embeds(g, ext, input)
                   /\ {f[i] : i \in 1..Len(int)} = {i \in 1..Len(input) : IsTrue(input[i])}
                   /\ {g[i] : i \in 1..Len(ext)} = {i \in 1..Len(input) : ~IsTrue(input[i])}

\* C4's case: a record without the flag and a record whose flag is the number 1: the first
\* is External, the second Internal
C4_Witness ==
    /\ call.op = "partition"
    /\ call.args.raw_api_data =
           <<(NAME :> StrVal(<<"B">>)), (NAME :> StrVal(<<"A">>)) @@ (INTERNAL :> IntVal(1))>>
    /\ call.ret.External = <<(NAME :> StrVal(<<"B">>))>>
    /\ call.ret.Internal = <<(NAME :> StrVal(<<"A">>)) @@ (INTERNAL :> IntVal(1))>>

(***************************************************************************)
(* SpecMain: the two scripts, BuildApiMappings.py and BuildCSV.py, from    *)
(* start to exit on every response within the bounds. An exception nobody  *)
(* catches ends the script at pc = "raised", sys.exit() at "exited".       *)
(***************************************************************************)
\* The literals of the scripts
DefaultUrl ==
    <<"h", "t", "t", "p", "s", ":", "/", "/", "p", "r", "i", "c", "e", ".", "p", "c",
      "l", "e", "n", "d", "e", "r", ".", "c", "o", "m", "/", "n", "e", "x", "b", "a",
      "n", "k", "/", "m", "e", "t", "h", "o", "d", "_", "l", "i", "s", "t">>
ApiMappingPrefix == <<"A", "P", "I", "_", "M", "a", "p", "p", "i", "n", "g", "_">>
XlsxSuffix == <<".", "x", "l", "s", "x">>
CsvSuffix == <<"_", "a", "p", "i", "s", ".", "c", "s", "v">>
MainProperties(version) ==
    [title    |-> <<"P", "R", "I", "C", "E", " ", "A", "P", "I", " ", "M", "a", "p", "p", "i", "n", "g", ":", " ">> \o version,
     subject  |-> <<"P", "R", "I", "C", "E", " ", "A", "P", "I", "s">>,
     keywords |-> <<"A", "P", "I">>,
     comments |-> <<"G", "e", "n", "e", "r", "a", "t", "e", "d", " ", "b", "y", " ", "F", "i", "s", "e", "r", "v", " ", "P", "r", "o", "d", "u", "c", "t", " ", "A", "u", "t", "o", "m", "a", "t", "i", "o", "n">>,
     status   |-> <<"I", "n", " ", "P", "r", "o", "d", "u", "c", "t", "i", "o", "n">>,
     author   |-> <<"P", "y", "t", "h", "o", "n", " ", "A", "u", "t", "o", "m", "a", "t", "i", "o", "n">>]

\* A JSON list and a JSON object of the payload, and the None that dict.get answers
ListObj(l) == [t |-> "list", v |-> l]
DictObj(d) == [t |-> "dict", v |-> d]
NoneObj    == [t |-> "none", v |-> <<>>]

\* full_data.get(key)
PayloadGet(full_data, key) == IF key \in DOMAIN full_data THEN full_data[key] ELSE NoneObj

EnvInit(program, argv) ==
    [program |-> program, argv |-> argv, api_url |-> <<>>,
     response |-> [reached |-> FALSE, status_code |-> 0, body |-> <<>>],
     full_data |-> <<>>, raw_api_data |-> NoneObj, columns |-> <<>>, version |-> <<>>,
     api_data |-> [External |-> <<>>, Internal |-> <<>>],
     column_alignment |-> ColumnDict(<<>>, <<>>), constructed |-> FALSE, i |-> 0]

Raise(exception) ==
    /\ fault' = exception
    /\ pc' = "raised"

\* BuildApiMappings.py 279-284, BuildCSV.py 107-110: the url and the expected columns
Main_Start ==
    /\ pc = "start"
    /\ env' = [env EXCEPT
                  !.api_url = IF env.program = "xlsx" /\ Len(env.argv) > 1
                              THEN env.argv[2] ELSE DefaultUrl,
                  !.column_alignment = IF env.program = "xlsx"
                                       THEN define_expected_columns ELSE @]
    /\ pc' = "get_api_list"
    /\ UNCHANGED <<filename, worksheets, properties, fileclosed, written, stdout, fault, call>>

\* full_data = get_api_list(url=api_url); requests.get raises when nothing answers
Main_GetApiList(response) ==
    /\ pc = "get_api_list"
    /\ IF ~response.reached
       THEN /\ Raise("ConnectionError")
            /\ env' = [env EXCEPT !.response = response]
            /\ UNCHANGED stdout
       ELSE LET r == get_api_list(response)
            IN  /\ env' = [env EXCEPT !.response = response, !.full_data = r.payload]
                /\ stdout' = IF r.complained
                             THEN Append(stdout, Printed("Unable to get API information",
                                                         IntStr(response.status_code)))
                             ELSE stdout
                /\ pc' = "read_payload"
                /\ UNCHANGED fault
    /\ UNCHANGED <<filename, worksheets, properties, fileclosed, written, call>>

\* BuildApiMappings.py 288-289: raw_api_data and version; None has no get
\* BuildCSV.py 114-117: raw_api_data and columns; None has no [0], an empty list no first
Main_ReadPayload ==
    /\ pc = "read_payload"
    /\ LET raw == PayloadGet(env.full_data, METHOD_LIST)
           version_info == PayloadGet(env.full_data, VERSION)
       IN  IF env.program = "xlsx"
           THEN IF version_info.t # "dict"
                THEN /\ Raise("AttributeError")
                     /\ env' = [env EXCEPT !.raw_api_data = raw]
                ELSE /\ env' = [env EXCEPT !.raw_api_data = raw,
                                           !.version = build_version_str(version_info.v)]
                     /\ pc' = "partition"
                     /\ UNCHANGED fault
           ELSE IF raw.t # "list"
                THEN /\ Raise("TypeError")
                     /\ env' = [env EXCEPT !.raw_api_data = raw]
                ELSE IF raw.v = <<>>
                THEN /\ Raise("IndexError")
                     /\ env' = [env EXCEPT !.raw_api_data = raw]
                ELSE /\ env' = [env EXCEPT !.raw_api_data = raw,
                                           !.columns = ListOf(DOMAIN raw.v[1])]
                     /\ pc' = "partition"
                     /\ UNCHANGED fault
    /\ UNCHANGED <<filename, worksheets, properties, fileclosed, written, stdout, call>>

\* api_data = {EXTERNAL: [...], INTERNAL: [...]}; None is not iterable
Main_Partition ==
    /\ pc = "partition"
    /\ IF env.raw_api_data.t # "list"
       THEN /\ Raise("TypeError")
            /\ UNCHANGED env
       ELSE /\ env' = [env EXCEPT !.api_data = partition(env.raw_api_data.v)]
            /\ pc' = "verify"
            /\ UNCHANGED fault
    /\ UNCHANGED <<filename, worksheets, properties, fileclosed, written, stdout, call>>

\* after_verify without the sys.exit(): the script goes on after a failed check
after_verify_never_exits(ok, program) == IF program = "xlsx" THEN "construct" ELSE "write_csv"

\* The pc after the column check: sys.exit() when it failed
after_verify(ok, program) ==
    IF ~ok THEN "exited"
    ELSE IF program = "xlsx" THEN "construct" ELSE "write_csv"

\* BuildApiMappings.py 297-303 (raw_api_data[0] of an empty list raises), BuildCSV.py 125-131
Main_Verify ==
    /\ pc = "verify"
    /\ IF env.program = "xlsx" /\ env.raw_api_data.v = <<>>
       THEN /\ Raise("IndexError")
            /\ UNCHANGED <<stdout, env>>
       ELSE LET source == IF env.program = "xlsx"
                          THEN ListOf(DOMAIN env.raw_api_data.v[1]) ELSE env.columns
                expected == IF env.program = "xlsx"
                            THEN env.column_alignment.keys ELSE expected_cols
                r == verify_cols_are_present(source, expected)
            IN  /\ stdout' =
                       IF r.ret
                       THEN Append(stdout, Printed("All expected columns present", <<>>))
                       ELSE stdout \o <<Printed("Column Mismatch", r.diff),
                                        Printed("Unable to generate files", <<>>)>>
                /\ pc' = after_verify(r.ret, env.program)
                /\ env' = [env EXCEPT !.i = 1]
                /\ UNCHANGED fault
    /\ UNCHANGED <<filename, worksheets, properties, fileclosed, written, call>>

\* BuildApiMappings.py 305-309: del column_alignment[INTERNAL]; xlsx_workbook = ExcelFile(...)
Main_Construct ==
    /\ pc = "construct"
    /\ env' = [env EXCEPT !.column_alignment = DelColumn(@, INTERNAL), !.constructed = TRUE]
    /\ filename' = ApiMappingPrefix \o env.version \o XlsxSuffix
    /\ worksheets' = <<>>
    /\ properties' = <<>>
    /\ fileclosed' = FALSE
    /\ pc' = "set_properties"
    /\ UNCHANGED <<written, stdout, fault, call>>

\* BuildApiMappings.py 310-312: xlsx_workbook.set_workbook_properties(...)
Main_SetProperties ==
    /\ pc = "set_properties"
    /\ properties' = workbook_properties(MainProperties(env.version))
    /\ pc' = "create_worksheets"
    /\ UNCHANGED <<filename, worksheets, fileclosed, written, stdout, fault, call, env>>

\* data_type and api_dict of the i-th item of api_data.items()
DataType(i) == IF i = 1 THEN EXTERNAL ELSE INTERNAL
ApiDict(api_data, i) == IF i = 1 THEN api_data.External ELSE api_data.Internal

\* BuildApiMappings.py 315-319: one turn of the loop over api_data.items()
Main_CreateWorksheet ==
    /\ pc = "create_worksheets"
    /\ LET r == create_worksheet(filename, worksheets, env.column_alignment,
                                 ApiDict(env.api_data, env.i), NAME, DataType(env.i))
       IN  /\ worksheets' = r.sheets
           /\ stdout' = stdout \o r.printed
           /\ fault' = r.fault
           /\ pc' = IF r.fault # "none" THEN "raised"
                    ELSE IF env.i = 2 THEN "version_worksheet" ELSE pc
    /\ env' = [env EXCEPT !.i = @ + 1]
    /\ UNCHANGED <<filename, properties, fileclosed, written, call>>

\* BuildApiMappings.py 321-324: the version worksheet, named after the version
Main_VersionWorksheet ==
    /\ pc = "version_worksheet"
    /\ LET r == create_worksheet(
                    filename, worksheets,
                    ColumnDict(<<VERSION, URL>>, (VERSION :> LEFT) @@ (URL :> LEFT)),
                    <<(VERSION :> StrVal(env.version)) @@ (URL :> StrVal(env.api_url))>>,
                    VERSION, env.version)
       IN  /\ worksheets' = r.sheets
           /\ stdout' = stdout \o r.printed
           /\ fault' = r.fault
           /\ pc' = IF r.fault # "none" THEN "raised" ELSE "close_workbook"
    /\ UNCHANGED <<filename, properties, fileclosed, written, call, env>>

\* BuildApiMappings.py 325-328: xlsx_workbook.close_workbook() and the last line
Main_CloseWorkbook ==
    /\ pc = "close_workbook"
    /\ fileclosed' = TRUE
    /\ written' = IF fileclosed THEN written ELSE WriteFile(written, filename, worksheets)
    /\ stdout' = stdout \o <<Printed("Workbook: Wrote XLSX", filename),
                              Printed("COMPLETE", env.version)>>
    /\ pc' = "done"
    /\ UNCHANGED <<filename, worksheets, properties, fault, call, env>>

\* BuildCSV.py 132-135: one turn of the loop over api_data.items()
Main_WriteCsv ==
    /\ pc = "write_csv"
    /\ LET name == Lower(DataType(env.i)) \o CsvSuffix
           r == write_csv_from_dict(ListWithout(expected_cols, INTERNAL),
                                    ApiDict(env.api_data, env.i), NAME)
       IN  /\ written' = WriteFile(written, name, r.content)
           /\ stdout' = IF r.fault # "none" THEN stdout
                        ELSE Append(stdout, Printed("Wrote file", name))
           /\ fault' = r.fault
           /\ pc' = IF r.fault # "none" THEN "raised"
                    ELSE IF env.i = 2 THEN "print_version" ELSE pc
    /\ env' = [env EXCEPT !.i = @ + 1]
    /\ UNCHANGED <<filename, worksheets, properties, fileclosed, call>>

\* BuildCSV.py 138: the version line at the end
Main_PrintVersion ==
    /\ pc = "print_version"
    /\ LET version_info == PayloadGet(env.full_data, VERSION)
       IN  IF version_info.t # "dict"
           THEN /\ Raise("AttributeError")
                /\ UNCHANGED stdout
           ELSE /\ stdout' = Append(stdout, Printed("VERSION", build_version_str(version_info.v)))
                /\ pc' = "done"
                /\ UNCHANGED fault
    /\ UNCHANGED <<filename, worksheets, properties, fileclosed, written, call, env>>

\* The records of the responses: complete ones, one without MethodClass, one without
\* Name, one with a field nobody expects
FullRecord(name, internal) ==
    (NAME :> StrVal(name)) @@ (IDEMPOTENT :> BoolVal(TRUE)) @@ (RESULT_TYPE :> StrVal(<<"R">>))
    @@ (METHOD_ACCESS_CHECKED :> BoolVal(FALSE))
    @@ (METHOD_CLASS :> StrVal(<<"T", "L", "o", "a", "n">>))
    @@ (INTERNAL :> BoolVal(internal)) @@ (METHOD_ACCESS :> StrVal(<<"x">>))

Without(d, key) == [k \in DOMAIN d \ {key} |-> d[k]]

MainRecords ==
    { FullRecord(Zeta, FALSE),
      FullRecord(Alpha, FALSE),
      FullRecord(Alpha, TRUE),
      Without(FullRecord(Zeta, FALSE), METHOD_CLASS),
      Without(FullRecord(Alpha, TRUE), NAME),
      FullRecord(Zeta, TRUE) @@ (<<"D">> :> BoolVal(TRUE)) }

VersionInfos ==
    { (MAJOR :> IntVal(1)) @@ (MINOR :> IntVal(2)) @@ (HOT_FIX :> IntVal(3)) @@ (BUILD :> IntVal(4)),
      (MAJOR :> IntVal(1)) @@ (MINOR :> IntVal(2)) }

\* The JSON objects a 2xx response may hold: with and without each top-level key
Payloads ==
    LET lists == {ListObj(l) : l \in ListsUpTo(MainRecords, MaxRecords)}
        infos == {DictObj(d) : d \in VersionInfos}
    IN  {(METHOD_LIST :> l) @@ (VERSION :> v) : l \in lists, v \in infos}
        \cup {(METHOD_LIST :> l) : l \in lists}
        \cup {(VERSION :> v) : v \in infos}

\* What requests.get may come back with: a 200 with a payload, another 2xx, statuses
\* that are not 2xx, and no answer at all
Responses ==
    {[reached |-> TRUE, status_code |-> 200, body |-> b] : b \in Payloads}
    \cup {[reached |-> TRUE, status_code |-> c, body |-> <<>>] : c \in {201, 404, 500}}
    \cup {[reached |-> FALSE, status_code |-> 0, body |-> <<>>]}

InitMain ==
    /\ filename = <<>>
    /\ worksheets = <<>>
    /\ properties = <<>>
    /\ fileclosed = FALSE
    /\ written = {}
    /\ stdout = <<>>
    /\ fault = "none"
    /\ call = NoCall
    /\ pc = "start"
    /\ \E program \in {"xlsx", "csv"}, argv \in {<<"main">>, <<"main", <<"u">>>>} :
          env = EnvInit(program, argv)

NextMain ==
    \/ Main_Start
    \/ \E response \in Responses : Main_GetApiList(response)
    \/ Main_ReadPayload
    \/ Main_Partition
    \/ Main_Verify
    \/ Main_Construct
    \/ Main_SetProperties
    \/ Main_CreateWorksheet
    \/ Main_VersionWorksheet
    \/ Main_CloseWorkbook
    \/ Main_WriteCsv
    \/ Main_PrintVersion

SpecMain == InitMain /\ [][NextMain]_vars

(***************************************************************************)
(* Claims about the scripts.                                               *)
(***************************************************************************)
\* The response was a 200 whose MethodList has a first record: the sample record
HasSample ==
    /\ env.response.reached
    /\ env.response.status_code = 200
    /\ PayloadGet(env.response.body, METHOD_LIST).t = "list"
    /\ PayloadGet(env.response.body, METHOD_LIST).v # <<>>

Sample == PayloadGet(env.response.body, METHOD_LIST).v[1]

\* The expected fields the sample record has not
MissingFields == {c \in SetOf(expected_cols) : c \notin DOMAIN Sample}

SampleLacksField == HasSample /\ MissingFields # {}

\* Nothing of the output exists: no ExcelFile, no worksheet, no close, no file
NoOutput ==
    /\ ~env.constructed
    /\ worksheets = <<>>
    /\ ~fileclosed
    /\ written = {}

\* The column check of a sample that lacks a field ends the script by sys.exit(), the
\* missing fields printed
VerifyExits ==
    (pc = "verify" /\ SampleLacksField) =>
        /\ pc' = "exited"
        /\ fault' = "none"
        /\ \E i \in 1..Len(stdout') :
              stdout'[i] = Printed("Column Mismatch", MissingFields)

\* C8: in a run whose sample record lacks an expected field, validation fails and the
\* script terminates before the workbook is constructed, before any worksheet is created
\* and before close: no output artifact is produced.
C8_FailFast ==
    /\ [](SampleLacksField => NoOutput)
    /\ [][VerifyExits]_vars
    /\ [][pc # "exited"]_vars

\* C8's case: the sample record has no MethodClass and the script has exited
C8_Witness ==
    /\ pc = "exited"
    /\ HasSample
    /\ MissingFields = {METHOD_CLASS}
    /\ NoOutput

\* The response had a status that get_api_list takes for a failure
RetrievalFailed == env.response.reached /\ status_failed(env.response.status_code)

\* C9: when retrieval fails, the run ends (at "exited", "raised" or "done") through the
\* validation-failure path: a printed diagnostic and sys.exit(), not a raised fault, and
\* without output.
C9_FailedRetrievalExits ==
    (RetrievalFailed /\ pc \in {"exited", "raised", "done"})
    => /\ pc = "exited"
       /\ fault = "none"
       /\ written = {}

====
